---- MODULE Spec2Model ----
(***************************************************************************)
(* Model of the image-resizer service (src/src/main.cpp).                  *)
(*                                                                         *)
(* Texts are sequences of ASCII codes, byte vectors are sequences of       *)
(* values 0..255.  The Boost iterators used by base64_decode and           *)
(* base64_encode (transform_width, binary_from_base64,                     *)
(* base64_from_binary) are modelled by what they compute, bit by bit.      *)
(***************************************************************************)
EXTENDS Integers, Sequences, FiniteSets, TLC

VARIABLES
    cpc,      \* codec harness: position ("enc", "dec", "encoded", "decoded")
    cfrom,    \* codec harness: "bytes" (encode then decode) or "text" (decode only)
    cbytes,   \* codec harness: the byte vector handed to base64_encode
    ctext,    \* codec harness: the text handed to base64_decode
    cres,     \* codec harness: the outcome of base64_decode
    inv,      \* the handler invocations, one record per slot
    alive     \* FALSE once the process was terminated abnormally

vars == <<cpc, cfrom, cbytes, ctext, cres, inv, alive>>

codecVars == <<cpc, cfrom, cbytes, ctext, cres>>
serverVars == <<inv, alive>>

-----------------------------------------------------------------------------
(* Bounds of the model *)

MaxBytes == 4        \* longest byte vector handed to base64_encode
MaxText == 5         \* longest text handed to base64_decode
NumInv == 2          \* handler invocations running concurrently
MaxChain == 2        \* longest chain of requests fed with the previous output
MaxSep == 2          \* separators added to a well-formed text

-----------------------------------------------------------------------------
(* Characters (ASCII codes) *)

LF == 10         \* '\n'
CR == 13         \* '\r'
EQUALS == 61     \* '='

\* the byte values the model draws byte vectors from
ByteValues == {0, 77, 170, 255}

\* the characters the model draws texts from: 'A', 'Q', '=', '!', ' ', '\n', '\r'
TextChars == {65, 81, EQUALS, 33, 32, LF, CR}

Min(a, b) == IF a < b THEN a ELSE b

Pow2(n) == 2 ^ n

SeqsUpTo(S, n) == UNION {[1..k -> S] : k \in 0..n}

-----------------------------------------------------------------------------
(* boost::archive::iterators::transform_width<Base, BitsOut, BitsIn>::fill *)
(* The iterator state is [p, bin, rem, eos, out, thrown]: p the position   *)
(* of the base iterator (1-based), bin m_buffer_in, rem m_remaining_bits,  *)
(* eos m_end_of_sequence, out m_buffer_out.  A source value of -1 stands   *)
(* for a character on which binary_from_base64 throws when it is read.     *)

RECURSIVE fill(_, _, _, _)
fill(src, s, BitsIn, missing) ==
    IF s.rem = 0 /\ ~s.eos /\ src[s.p] = -1
    THEN [s EXCEPT !.thrown = TRUE]
    ELSE
      LET s1 == IF s.rem = 0
                THEN IF s.eos
                     THEN [s EXCEPT !.bin = 0, !.rem = missing]
                     ELSE [s EXCEPT !.bin = src[s.p], !.p = s.p + 1, !.rem = BitsIn]
                ELSE s
          i == Min(missing, s1.rem)
          j == (s1.bin \div Pow2(s1.rem - i)) % Pow2(i)
          s2 == [s1 EXCEPT !.out = ((s1.out * Pow2(i)) + j) % 256,
                           !.rem = s1.rem - i]
      IN IF missing - i > 0 THEN fill(src, s2, BitsIn, missing - i) ELSE s2

\* transform_width constructor
IterInit == [p |-> 1, bin |-> 0, rem |-> 0, eos |-> FALSE, out |-> 0, thrown |-> FALSE]

\* binary_from_base64: detail::to_6_bit lookup table ('=' is rendered as 0)
to_6_bit(c) ==
    IF c >= 65 /\ c <= 90 THEN c - 65
    ELSE IF c >= 97 /\ c <= 122 THEN c - 97 + 26
    ELSE IF c >= 48 /\ c <= 57 THEN c - 48 + 52
    ELSE IF c = 43 THEN 62
    ELSE IF c = 47 THEN 63
    ELSE IF c = EQUALS THEN 0
    ELSE -1

\* variant: the URL-safe alphabet ('-' and '_' for 62 and 63)
from_6_bit_urlsafe(v) ==
    IF v < 26 THEN 65 + v
    ELSE IF v < 52 THEN 97 + (v - 26)
    ELSE IF v < 62 THEN 48 + (v - 52)
    ELSE IF v = 62 THEN 45
    ELSE 95

\* base64_from_binary: detail::from_6_bit lookup table
from_6_bit(v) ==
    IF v < 26 THEN 65 + v
    ELSE IF v < 52 THEN 97 + (v - 26)
    ELSE IF v < 62 THEN 48 + (v - 52)
    ELSE IF v = 62 THEN 43
    ELSE 47

-----------------------------------------------------------------------------
(* base64_encode *)

\* std::string result(It(data), It(data + len)): the loop
\* while (first != last) push_back(*first++), with transform_width<.., 6, 8>
\* whose equal() sets m_end_of_sequence and compares m_remaining_bits to 0
RECURSIVE EncLoop(_, _, _)
EncLoop(data, s, acc) ==
    IF s.p = Len(data) + 1 /\ s.rem = 0
    THEN acc
    ELSE LET s0 == IF s.p = Len(data) + 1 THEN [s EXCEPT !.eos = TRUE] ELSE s
             s1 == fill(data, [s0 EXCEPT !.out = 0], 8, 6)
         IN EncLoop(data, s1, Append(acc, from_6_bit(s1.out)))

\* variant: the outer modulo forgotten
EncPaddingNoMod(len) == 3 - (len % 3)

\* line 58
EncPadding(len) == (3 - (len % 3)) % 3

base64_encode(data) ==
    EncLoop(data, IterInit, <<>>) \o [k \in 1..EncPadding(Len(data)) |-> EQUALS]

-----------------------------------------------------------------------------
(* base64_decode *)

\* std::isspace in the classic locale, as used by boost::trim
IsSpace(c) == c \in {32, 9, 10, 11, 12, 13}

RECURSIVE TrimLeft(_)
TrimLeft(t) == IF t # <<>> /\ IsSpace(Head(t)) THEN TrimLeft(Tail(t)) ELSE t

RECURSIVE TrimRight(_)
TrimRight(t) ==
    IF t # <<>> /\ IsSpace(t[Len(t)]) THEN TrimRight(SubSeq(t, 1, Len(t) - 1)) ELSE t

\* clean.erase(std::remove(clean.begin(), clean.end(), ch), clean.end())
Remove(t, ch) == SelectSeq(t, LAMBDA c : c # ch)

\* variant: boost::trim left out
CleanNoTrim(encoded) == Remove(Remove(encoded, LF), CR)

\* variant: line 31 left out, '\r' is kept
CleanNoCR(encoded) == Remove(TrimRight(TrimLeft(encoded)), LF)

\* lines 28-31: the text the decoder iterates over
Clean(encoded) == Remove(Remove(TrimRight(TrimLeft(encoded)), LF), CR)

\* variant: only the last character is looked at
DecPaddingLastOnly(clean) == IF clean[Len(clean)] = EQUALS THEN 1 ELSE 0

\* lines 35-39
DecPadding(clean) ==
    (IF clean[Len(clean)] = EQUALS THEN 1 ELSE 0)
    + (IF Len(clean) > 1 /\ clean[Len(clean) - 1] = EQUALS THEN 1 ELSE 0)

\* what the decoding iterator reads at each position: positions 1..Len hold
\* the characters, position Len+1 is the string's terminator, read when the
\* iterator runs past the end
DecSource(clean) ==
    [k \in 1..(Len(clean) + 1) |->
        IF k <= Len(clean) THEN to_6_bit(clean[k]) ELSE to_6_bit(0)]

\* std::vector<uint8_t> result(It(clean.begin()), It(clean.end())): the loop
\* while (first != last) push_back(*first++), with transform_width<.., 8, 6>
\* whose equal() compares the base iterators only.
\* Result: [thrown, overread, bytes]
RECURSIVE DecLoop(_, _, _, _)
DecLoop(src, n, s, acc) ==
    IF s.p = n + 1
    THEN [thrown |-> FALSE, overread |-> FALSE, bytes |-> acc]
    ELSE LET s1 == fill(src, [s EXCEPT !.out = 0], 6, 8)
         IN IF s1.thrown
            THEN [thrown |-> TRUE, overread |-> (s1.p = n + 1), bytes |-> acc]
            ELSE DecLoop(src, n, s1, Append(acc, s1.out))

\* the byte vectors an out-of-range erase may leave behind
GarbageBytes == {<<>>, <<0>>}

Throw == [kind |-> "throw", bytes |-> <<>>]
Crash == [kind |-> "crash", bytes |-> <<>>]
Ok(b) == [kind |-> "ok", bytes |-> b]

\* The outcomes of base64_decode(encoded).  "throw" is the std::runtime_error of
\* line 46.  Two steps are undefined behaviour and have several outcomes:
\*  - reading *clean.end() (a text whose length is 1 modulo 4): the read yields
\*    the terminator, on which the lookup throws, or a checked build aborts;
\*  - result.erase(result.end() - padding, ...) with padding > result.size():
\*    the process aborts, or a vector of unspecified content is returned.
base64_decode(encoded) ==
    LET clean == Clean(encoded)
    IN IF clean = <<>>
       THEN {Ok(<<>>)}
       ELSE LET padding == DecPadding(clean)
                r == DecLoop(DecSource(clean), Len(clean), IterInit, <<>>)
            IN IF r.thrown
               THEN IF r.overread THEN {Throw, Crash} ELSE {Throw}
               ELSE IF padding > Len(r.bytes)
                    THEN {Crash} \cup {Ok(g) : g \in GarbageBytes}
                    ELSE {Ok(SubSeq(r.bytes, 1, Len(r.bytes) - padding))}

\* line 41: the outcome of the 6-to-8-bit conversion of the cleaned text
Converted(encoded) ==
    DecLoop(DecSource(Clean(encoded)), Len(Clean(encoded)), IterInit, <<>>)

\* lines 33 and 41: the text is not empty after cleaning and the conversion
\* does not throw, so control reaches the erase of line 42
ReachesErase(encoded) == Clean(encoded) # <<>> /\ ~Converted(encoded).thrown

-----------------------------------------------------------------------------
(* Codec harness: applies base64_encode and base64_decode to drawn inputs *)

NoRes == [kind |-> "none", bytes |-> <<>>]

CodecIdle ==
    /\ cpc = "idle" /\ cfrom = "none" /\ cbytes = <<>> /\ ctext = <<>> /\ cres = NoRes

ServerIdle ==
    /\ inv = <<>> /\ alive = TRUE

\* well-formed texts: blocks of 4 characters over 'A' and 'Q', the last block
\* ending in 0, 1 or 2 '='; the empty text; "QUFBQQ==" of two blocks
WellFormedTexts ==
    {<<>>, <<81, 85, 70, 66, 81, 81, 61, 61>>}
    \cup [1..4 -> {65, 81}]
    \cup {t \o <<EQUALS>> : t \in [1..3 -> {65, 81}]}
    \cup {t \o <<EQUALS, EQUALS>> : t \in [1..2 -> {65, 81}]}

InsertAt(t, pos, c) == SubSeq(t, 1, pos) \o <<c>> \o SubSeq(t, pos + 1, Len(t))

\* the texts obtained from those of S by adding up to k separators: '\n' or
\* '\r' at any position, ' ' or '\t' in front or at the end
RECURSIVE Variants(_, _)
Variants(S, k) ==
    IF k = 0
    THEN S
    ELSE Variants(S \cup UNION {{InsertAt(t, pos, c) : pos \in 0..Len(t), c \in {LF, CR}} : t \in S}
                    \cup {<<c>> \o t : t \in S, c \in {32, 9}}
                    \cup {t \o <<c>> : t \in S, c \in {32, 9}},
                  k - 1)

CodecInit ==
    /\ \/ /\ cfrom = "bytes"
          /\ cpc = "enc"
          /\ cbytes \in SeqsUpTo(ByteValues, MaxBytes)
          /\ ctext = <<>>
       \/ /\ cfrom = "text"
          /\ cpc = "dec"
          /\ cbytes = <<>>
          /\ ctext \in SeqsUpTo(TextChars, MaxText)
       \/ /\ cfrom = "variant"
          /\ cpc = "dec"
          /\ cbytes = <<>>
          /\ ctext \in Variants(WellFormedTexts, MaxSep)
    /\ cres = NoRes
    /\ ServerIdle

Encode ==
    /\ cpc = "enc"
    /\ ctext' = base64_encode(cbytes)
    /\ cpc' = "encoded"
    /\ UNCHANGED <<cfrom, cbytes, cres, serverVars>>

Decode ==
    /\ cpc \in {"dec", "encoded"}
    /\ cres' \in base64_decode(ctext)
    /\ cpc' = "decoded"
    /\ UNCHANGED <<cfrom, cbytes, ctext, serverVars>>

CodecNext == Encode \/ Decode

SpecCodec == CodecInit /\ [][CodecNext]_vars

-----------------------------------------------------------------------------
(* The image codec (OpenCV), as resize_jpeg uses it.  A pixel buffer is     *)
(* the pair of its dimensions; the empty cv::Mat is [w |-> 0, h |-> 0].     *)
(* A compressed image is the marker 255 216 followed by width and height,  *)
(* two bytes each, as the JPEG frame header stores them.                    *)

MaxJpegDim == 65500

EmptyMat == [w |-> 0, h |-> 0]

\* cv::imencode(".jpg", image, output_buffer, encode_params), when it succeeds
imencode(img) ==
    <<255, 216, img.w \div 256, img.w % 256, img.h \div 256, img.h % 256>>

\* cv::imdecode(jpeg_data, cv::IMREAD_COLOR): the empty Mat for bytes that
\* are not a complete image
imdecode(bytes) ==
    IF /\ Len(bytes) = 6
       /\ bytes[1] = 255
       /\ bytes[2] = 216
       /\ bytes[3] * 256 + bytes[4] >= 1
       /\ bytes[5] * 256 + bytes[6] >= 1
    THEN [w |-> bytes[3] * 256 + bytes[4], h |-> bytes[5] * 256 + bytes[6]]
    ELSE EmptyMat

\* variant: cv::Size(target_height, target_width)
resizeSwapped(img, target_width, target_height) == [w |-> target_height, h |-> target_width]

\* cv::resize(input_image, resized_image, cv::Size(target_width, target_height), ...)
resize(img, target_width, target_height) == [w |-> target_width, h |-> target_height]

-----------------------------------------------------------------------------
(* resize_jpeg and the /resize_image handler, stage by stage *)

\* variant: the upper limit taken as exclusive
ValidDimensionsExclusive(target_width, target_height) ==
    /\ ~(target_width <= 0 \/ target_height <= 0)
    /\ ~(target_width >= MaxJpegDim \/ target_height >= MaxJpegDim)

\* lines 66-72: the dimensions pass validation
ValidDimensions(target_width, target_height) ==
    /\ ~(target_width <= 0 \/ target_height <= 0)
    /\ ~(target_width > MaxJpegDim \/ target_height > MaxJpegDim)

\* variant: the emptiness check placed after the image is decoded
StageAfterLateCheck(st) ==
    CASE st = "validate" -> "text_decode"
      [] st = "text_decode" -> "image_decode"
      [] st = "image_decode" -> "empty_check"
      [] st = "empty_check" -> "resample"
      [] st = "resample" -> "image_encode"
      [] st = "image_encode" -> "text_encode"
      [] st = "text_encode" -> "returned"

\* the stage control reaches when stage st completes without throwing
StageAfter(st) ==
    CASE st = "validate" -> "text_decode"
      [] st = "text_decode" -> "empty_check"
      [] st = "empty_check" -> "image_decode"
      [] st = "image_decode" -> "resample"
      [] st = "resample" -> "image_encode"
      [] st = "image_encode" -> "text_encode"
      [] st = "text_encode" -> "returned"

\* the exceptions resize_jpeg throws: the failure kind and the C++ type
InvalidDimension == [kind |-> "InvalidDimension", type |-> "invalid_argument"]
EmptyInput == [kind |-> "EmptyInput", type |-> "invalid_argument"]
CodecError == [kind |-> "CodecError", type |-> "runtime_error"]
ImageDecodeError == [kind |-> "ImageDecodeError", type |-> "runtime_error"]
ImageEncodeError == [kind |-> "ImageEncodeError", type |-> "runtime_error"]
\* json::parse or a field conversion failing in the handler
ParseError == [kind |-> "ParseError", type |-> "json_exception"]
NoError == [kind |-> "none", type |-> "none"]

\* lines 131-141: the handler's catch clauses
StatusOf(err) == IF err.type = "invalid_argument" THEN 400 ELSE 500

Idle ==
    [pc |-> "idle", body_ok |-> TRUE, input |-> <<>>, width |-> 0, height |-> 0,
     enc_ok |-> TRUE, chain |-> 0, stages |-> <<>>,
     jpeg_data |-> <<>>, input_image |-> EmptyMat, resized_image |-> EmptyMat,
     output_buffer |-> <<>>, result |-> <<>>, err |-> NoError, status |-> 0]

\* variant: the decoded bytes kept in one buffer shared by all invocations
JpegDataShared(i) == inv[1].jpeg_data

\* the locals of invocation i
JpegData(i) == inv[i].jpeg_data
InputImage(i) == inv[i].input_image
ResizedImage(i) == inv[i].resized_image
OutputBuffer(i) == inv[i].output_buffer

Throws(i, e) == [inv[i] EXCEPT !.pc = "thrown", !.err = e]

\* a request arrives in slot i: the body, its three fields, and whether the
\* image codec will be able to produce output bytes for it
Accept(i, body_ok, text, w, h, enc_ok, chain) ==
    /\ alive
    /\ inv' = [inv EXCEPT ![i] =
                 [Idle EXCEPT !.pc = "handler", !.body_ok = body_ok, !.input = text,
                              !.width = w, !.height = h, !.enc_ok = enc_ok,
                              !.chain = chain]]
    /\ UNCHANGED <<alive, codecVars>>

\* lines 122-126: json::parse and the extraction of the three fields
Parse(i) ==
    /\ alive
    /\ inv[i].pc = "handler"
    /\ inv' = [inv EXCEPT ![i] =
                 IF inv[i].body_ok
                 THEN [inv[i] EXCEPT !.pc = "validate"]
                 ELSE Throws(i, ParseError)]
    /\ UNCHANGED <<alive, codecVars>>

Started(i, st) == [inv[i] EXCEPT !.stages = Append(@, st)]

\* lines 66-72
Validate(i) ==
    /\ alive
    /\ inv[i].pc = "validate"
    /\ inv' = [inv EXCEPT ![i] =
                 IF ValidDimensions(inv[i].width, inv[i].height)
                 THEN [Started(i, "validate") EXCEPT !.pc = StageAfter("validate")]
                 ELSE [Started(i, "validate") EXCEPT !.pc = "thrown",
                                                     !.err = InvalidDimension]]
    /\ UNCHANGED <<alive, codecVars>>

\* line 74
TextDecode(i) ==
    /\ alive
    /\ inv[i].pc = "text_decode"
    /\ \E o \in base64_decode(inv[i].input) :
         /\ inv' = [inv EXCEPT ![i] =
                      CASE o.kind = "ok" ->
                             [Started(i, "text_decode") EXCEPT
                                 !.pc = StageAfter("text_decode"), !.jpeg_data = o.bytes]
                        [] o.kind = "throw" ->
                             [Started(i, "text_decode") EXCEPT
                                 !.pc = "thrown", !.err = CodecError]
                        [] o.kind = "crash" ->
                             [Started(i, "text_decode") EXCEPT !.pc = "crashed"]]
         /\ alive' = (o.kind # "crash")
    /\ UNCHANGED codecVars

\* lines 76-78
EmptyCheck(i) ==
    /\ alive
    /\ inv[i].pc = "empty_check"
    /\ inv' = [inv EXCEPT ![i] =
                 IF JpegData(i) = <<>>
                 THEN [Started(i, "empty_check") EXCEPT !.pc = "thrown", !.err = EmptyInput]
                 ELSE [Started(i, "empty_check") EXCEPT !.pc = StageAfter("empty_check")]]
    /\ UNCHANGED <<alive, codecVars>>

\* lines 80-84
ImageDecode(i) ==
    /\ alive
    /\ inv[i].pc = "image_decode"
    /\ LET img == imdecode(JpegData(i))
       IN inv' = [inv EXCEPT ![i] =
                    IF img = EmptyMat
                    THEN [Started(i, "image_decode") EXCEPT
                             !.pc = "thrown", !.err = ImageDecodeError]
                    ELSE [Started(i, "image_decode") EXCEPT
                             !.pc = StageAfter("image_decode"), !.input_image = img]]
    /\ UNCHANGED <<alive, codecVars>>

\* lines 86-88
Resample(i) ==
    /\ alive
    /\ inv[i].pc = "resample"
    /\ inv' = [inv EXCEPT ![i] =
                 [Started(i, "resample") EXCEPT
                     !.pc = StageAfter("resample"),
                     !.resized_image = resize(InputImage(i), inv[i].width, inv[i].height)]]
    /\ UNCHANGED <<alive, codecVars>>

\* lines 90-100
ImageEncode(i) ==
    /\ alive
    /\ inv[i].pc = "image_encode"
    /\ LET buf == IF inv[i].enc_ok THEN imencode(ResizedImage(i)) ELSE <<>>
       IN inv' = [inv EXCEPT ![i] =
                    IF ~inv[i].enc_ok \/ buf = <<>>
                    THEN [Started(i, "image_encode") EXCEPT
                             !.pc = "thrown", !.err = ImageEncodeError]
                    ELSE [Started(i, "image_encode") EXCEPT
                             !.pc = StageAfter("image_encode"), !.output_buffer = buf]]
    /\ UNCHANGED <<alive, codecVars>>

\* line 103
TextEncode(i) ==
    /\ alive
    /\ inv[i].pc = "text_encode"
    /\ inv' = [inv EXCEPT ![i] =
                 [Started(i, "text_encode") EXCEPT
                     !.pc = StageAfter("text_encode"),
                     !.result = base64_encode(OutputBuffer(i))]]
    /\ UNCHANGED <<alive, codecVars>>

\* lines 127-141: the response of the handler
Respond(i) ==
    /\ alive
    /\ inv[i].pc \in {"returned", "thrown"}
    /\ inv' = [inv EXCEPT ![i] =
                 [inv[i] EXCEPT !.pc = "responded",
                                !.status = IF inv[i].pc = "returned"
                                           THEN 200
                                           ELSE StatusOf(inv[i].err)]]
    /\ UNCHANGED <<alive, codecVars>>

Step(i) ==
    \/ Parse(i)
    \/ Validate(i)
    \/ TextDecode(i)
    \/ EmptyCheck(i)
    \/ ImageDecode(i)
    \/ Resample(i)
    \/ ImageEncode(i)
    \/ TextEncode(i)
    \/ Respond(i)

-----------------------------------------------------------------------------
(* resize_jpeg run alone, as one function of its arguments: the set of its  *)
(* outcomes [pc, err, result].                                               *)

Returned(text) == [pc |-> "returned", err |-> NoError, result |-> text]
Thrown(e) == [pc |-> "thrown", err |-> e, result |-> <<>>]
Crashed == [pc |-> "crashed", err |-> NoError, result |-> <<>>]

AfterTextDecode(o, target_width, target_height, enc_ok) ==
    IF o.kind = "crash" THEN Crashed
    ELSE IF o.kind = "throw" THEN Thrown(CodecError)
    ELSE IF o.bytes = <<>> THEN Thrown(EmptyInput)
    ELSE IF imdecode(o.bytes) = EmptyMat THEN Thrown(ImageDecodeError)
    ELSE IF ~enc_ok THEN Thrown(ImageEncodeError)
    ELSE Returned(base64_encode(
             imencode(resize(imdecode(o.bytes), target_width, target_height))))

resize_jpeg(input_base64, target_width, target_height, enc_ok) ==
    IF ~ValidDimensions(target_width, target_height)
    THEN {Thrown(InvalidDimension)}
    ELSE {AfterTextDecode(o, target_width, target_height, enc_ok) :
             o \in base64_decode(input_base64)}

-----------------------------------------------------------------------------
(* The server handling one request at a time; a client may send the image   *)
(* it received back in its next request.                                     *)

\* the dimensions requests ask for
Dims == {-1, 0, 1, 2, MaxJpegDim, MaxJpegDim + 1}

\* the images clients send: "/9gAAQAB" (1x1), "/9gAAgAC" (2x2), "/9gAAwAC" (3x2)
ImageTexts ==
    {<<47, 57, 103, 65, 65, 81, 65, 66>>,
     <<47, 57, 103, 65, 65, 103, 65, 67>>,
     <<47, 57, 103, 65, 65, 119, 65, 67>>}

\* the bytes FF 00 FF 00 AA BB, which are no image: "/wD/AKq7"
NonImageText == <<47, 119, 68, 47, 65, 75, 113, 55>>

\* input texts: images, non-image bytes, empty and whitespace-only texts,
\* texts with characters outside the alphabet, texts of length 1, 2, 3 modulo 4
InputTexts ==
    ImageTexts
    \cup {NonImageText}
    \cup {<<>>, <<32>>, <<10, 9, 32, 13>>}
    \cup {<<33, 33, 33, 33>>, <<81, 33, 81, 81>>, <<81, 32, 81, 81>>}
    \cup {<<81>>, <<81, 81>>, <<81, 81, 81>>, <<61, 61>>, <<65, 61>>}

Request ==
    /\ inv[1].pc \in {"idle", "responded"}
    /\ \/ \E text \in InputTexts, w \in Dims, h \in Dims, enc_ok \in BOOLEAN :
             Accept(1, TRUE, text, w, h, enc_ok, 0)
       \/ Accept(1, FALSE, <<>>, 0, 0, TRUE, 0)

\* the client sends the output of the previous, successful request back
RequestChained ==
    /\ inv[1].pc = "responded"
    /\ inv[1].status = 200
    /\ inv[1].chain < MaxChain
    /\ \E w \in Dims, h \in Dims, enc_ok \in BOOLEAN :
          Accept(1, TRUE, inv[1].result, w, h, enc_ok, inv[1].chain + 1)

Init ==
    /\ inv = [i \in 1..1 |-> Idle]
    /\ alive = TRUE
    /\ CodecIdle

Next == Request \/ RequestChained \/ Step(1)

Spec == Init /\ [][Next]_vars

-----------------------------------------------------------------------------
(* The server handling NumInv requests concurrently, their stages           *)
(* interleaved in any order.                                                 *)

ConcTexts ==
    {<<47, 57, 103, 65, 65, 119, 65, 67>>, <<>>, <<33, 33, 33, 33>>, <<61, 61>>}

ConcWidths == {1, 2}
ConcHeights == {3}

RequestConc(i) ==
    /\ inv[i].pc = "idle"
    /\ \E text \in ConcTexts, w \in ConcWidths, h \in ConcHeights :
          Accept(i, TRUE, text, w, h, TRUE, 0)

InitConc ==
    /\ inv = [i \in 1..NumInv |-> Idle]
    /\ alive = TRUE
    /\ CodecIdle

NextConc == \E i \in 1..NumInv : RequestConc(i) \/ Step(i)

SpecConc == InitConc /\ [][NextConc]_vars

-----------------------------------------------------------------------------
(* Properties of the text codec, checked under SpecCodec *)

\* the 64 characters of the base64 alphabet
Base64Alphabet == (65..90) \cup (97..122) \cup (48..57) \cup {43, 47}

\* C3: for every byte sequence b, base64_decode(base64_encode(b)) returns
\* exactly b: same length, same bytes, same order.
C3_RoundTrip ==
    (cpc = "decoded" /\ cfrom = "bytes") => (cres.kind = "ok" /\ cres.bytes = cbytes)

\* a byte vector of length 1 modulo 3 (two padding characters) went round
C3_Witness ==
    /\ cpc = "decoded" /\ cfrom = "bytes"
    /\ Len(cbytes) = 4 /\ cbytes[4] = 255
    /\ Len(ctext) = 8 /\ ctext[7] = EQUALS /\ ctext[8] = EQUALS
    /\ cres.bytes = cbytes

\* the text left after separator removal is malformed: its length is not a
\* multiple of 4, or it holds a character that is neither of the alphabet nor '='
Malformed(text) ==
    LET clean == Clean(text)
    IN /\ clean # <<>>
       /\ \/ Len(clean) % 4 # 0
          \/ \E k \in 1..Len(clean) : clean[k] \notin (Base64Alphabet \cup {EQUALS})

\* C4: base64_decode throws (and never returns a byte sequence) for every
\* input that is malformed after separator removal: a stripped length of 1, 2
\* or 3 modulo 4, or a character outside the alphabet.  Stated for the inputs
\* on which the decoder has a single, defined outcome.
C4_MalformedThrows ==
    (/\ cpc = "decoded" /\ cfrom = "text"
     /\ Malformed(ctext)
     /\ Cardinality(base64_decode(ctext)) = 1) => cres.kind = "throw"

\* C10: base64_encode returns, for n bytes, exactly 4*ceil(n/3) characters, the
\* last (3 - n mod 3) mod 3 of them '=', the others of the base64 alphabet; the
\* empty string for n = 0.
C10_EncodePadded ==
    cpc = "encoded" =>
        LET n == Len(cbytes)
            pad == (3 - (n % 3)) % 3
        IN /\ Len(ctext) = 4 * ((n + 2) \div 3)
           /\ \A k \in 1..Len(ctext) :
                 IF k > Len(ctext) - pad
                 THEN ctext[k] = 61
                 ELSE ctext[k] \in Base64Alphabet
           /\ (n = 0 => ctext = <<>>)

\* two bytes were encoded as three characters and one '='
C10_Witness ==
    /\ cpc = "encoded"
    /\ Len(cbytes) = 2
    /\ Len(ctext) = 4
    /\ ctext[4] = 61 /\ ctext[3] # 61

\* the text with every whitespace character taken out
StripAll(text) == SelectSeq(text, LAMBDA c : c \notin {32, 9, 10, 11, 12, 13})

\* C11: for every well-formed base64 text t, base64_decode returns the same
\* bytes for t and for t with leading or trailing whitespace added and '\n' or
\* '\r' inserted at any positions, also inside a block or before the padding.
C11_SeparatorsIgnored ==
    (cpc = "decoded" /\ cfrom = "variant") =>
        /\ cres.kind = "ok"
        /\ base64_decode(StripAll(ctext)) = {cres}

\* "QQ=\r=" with a leading blank: a separator between the two padding characters
C11_Witness ==
    /\ cpc = "decoded" /\ cfrom = "variant"
    /\ ctext = <<32, 81, 81, 61, 13, 61>>
    /\ cres = [kind |-> "ok", bytes |-> <<65>>]

\* C12: for every text that reaches the padding removal, the number of bytes
\* erased (the '=' among the last two characters, 0 to 2) never exceeds the
\* number of bytes the conversion produced, also for "==" and "A=".
C12_EraseInRange ==
    (cpc = "decoded" /\ cfrom = "text" /\ ReachesErase(ctext)) =>
        /\ DecPadding(Clean(ctext)) \in 0..2
        /\ DecPadding(Clean(ctext)) <= Len(Converted(ctext).bytes)

-----------------------------------------------------------------------------
(* Properties of resize_jpeg and the handler, checked under Spec *)

DimsInvalid(r) ==
    r.width <= 0 \/ r.height <= 0 \/ r.width > 65500 \/ r.height > 65500

Failed(r) == r.err.kind \notin {"none", "ParseError"}

Succeeded(r) == r.pc = "returned" \/ (r.pc = "responded" /\ r.status = 200)

\* the image found in an output text by decoding it again
OutputImages(text) ==
    {IF o.kind = "ok" THEN imdecode(o.bytes) ELSE EmptyMat : o \in base64_decode(text)}

\* C1: resize_jpeg fails with InvalidDimension (std::invalid_argument) if and
\* only if width <= 0 or height <= 0 or width > 65500 or height > 65500; every
\* other pair, (1, 1) and (65500, 65500) included, passes validation.
C1_DimensionValidation ==
    \A i \in DOMAIN inv :
        LET r == inv[i]
        IN Len(r.stages) >= 1 =>
              /\ (r.err.kind = "InvalidDimension") <=> DimsInvalid(r)
              /\ r.err.kind = "InvalidDimension" => r.err.type = "invalid_argument"
              /\ (~DimsInvalid(r) /\ Len(r.stages) = 1) => r.pc = "text_decode"

\* (65500, 65500) passed validation and the text is about to be decoded
C1_Witness ==
    /\ inv[1].width = 65500 /\ inv[1].height = 65500
    /\ inv[1].stages = <<"validate">>
    /\ inv[1].pc = "text_decode"

\* the failure kind of each stage that can fail
KindOfStage(st) ==
    CASE st = "validate" -> "InvalidDimension"
      [] st = "text_decode" -> "CodecError"
      [] st = "empty_check" -> "EmptyInput"
      [] st = "image_decode" -> "ImageDecodeError"
      [] st = "image_encode" -> "ImageEncodeError"
      [] OTHER -> "never"

\* C2: the stages run in the order validate, text-decode, empty check,
\* image-decode, resample, image-encode, text-encode, each at most once; the
\* invocation ends at the first stage that fails, with that stage's kind, and
\* invalid dimensions give InvalidDimension before any decoding, whatever the text.
C2_StageOrder ==
    \A i \in DOMAIN inv :
        LET r == inv[i]
            order == <<"validate", "text_decode", "empty_check", "image_decode",
                       "resample", "image_encode", "text_encode">>
        IN /\ Len(r.stages) <= 7
           /\ \A k \in 1..Len(r.stages) : r.stages[k] = order[k]
           /\ Failed(r) => r.err.kind = KindOfStage(r.stages[Len(r.stages)])
           /\ r.pc = "returned" => r.stages = order
           /\ (DimsInvalid(r) /\ Len(r.stages) >= 1) =>
                  /\ r.stages = <<"validate">>
                  /\ r.err.kind = "InvalidDimension"
                  /\ r.jpeg_data = <<>>

\* a request with a malformed text and an invalid width ended in validation
C2_Witness ==
    /\ inv[1].input = <<33, 33, 33, 33>>
    /\ inv[1].width = 0
    /\ inv[1].pc = "thrown"
    /\ inv[1].stages = <<"validate">>

\* C5: InvalidDimension, EmptyInput and CodecError are answered with 400,
\* ImageDecodeError and ImageEncodeError with 500, success with 200.
C5_StatusClasses ==
    \A i \in DOMAIN inv :
        LET r == inv[i]
        IN (r.pc = "responded" /\ r.err.kind # "ParseError") =>
              r.status = CASE r.err.kind \in {"InvalidDimension", "EmptyInput", "CodecError"} -> 400
                           [] r.err.kind \in {"ImageDecodeError", "ImageEncodeError"} -> 500
                           [] r.err.kind = "none" -> 200

AllSpace(text) == \A k \in 1..Len(text) : text[k] \in {32, 9, 10, 11, 12, 13}

\* C6: with valid dimensions, an empty or whitespace-only text fails with
\* EmptyInput (std::invalid_argument), not CodecError: it decodes to the empty
\* byte sequence, and no empty byte sequence reaches image decoding.
C6_EmptyInput ==
    \A i \in DOMAIN inv :
        LET r == inv[i]
        IN /\ (~DimsInvalid(r) /\ AllSpace(r.input) /\ Len(r.stages) >= 2) =>
                 /\ r.err.kind # "CodecError"
                 /\ r.pc # "crashed"
                 /\ r.jpeg_data = <<>>
                 /\ Len(r.stages) >= 3 =>
                       /\ r.stages = <<"validate", "text_decode", "empty_check">>
                       /\ r.err.kind = "EmptyInput"
                       /\ r.err.type = "invalid_argument"
           /\ (r.pc = "image_decode" \/ Len(r.stages) >= 4) => r.jpeg_data # <<>>

\* a whitespace-only text was rejected by the emptiness check
C6_Witness ==
    /\ inv[1].input = <<10, 9, 32, 13>>
    /\ inv[1].pc = "thrown"
    /\ inv[1].err.kind = "EmptyInput"

\* C7: when resize_jpeg succeeds, its output decoded again is an image of
\* exactly the requested width and height, whatever the size of the source.
C7_DimensionFidelity ==
    \A i \in DOMAIN inv :
        LET r == inv[i]
        IN Succeeded(r) =>
              OutputImages(r.result) = {[w |-> r.width, h |-> r.height]}

\* a 3x2 source was resized to 65500x1 (wider, lower, another aspect ratio)
C7_Witness ==
    /\ inv[1].pc = "returned"
    /\ inv[1].input_image = [w |-> 3, h |-> 2]
    /\ inv[1].width = 65500 /\ inv[1].height = 1

\* C8: the output of a successful resize_jpeg fed into the next call never
\* fails with CodecError, EmptyInput or ImageDecodeError, and the image after
\* the last call has exactly the last pair's width and height.
C8_ChainStable ==
    \A i \in DOMAIN inv :
        LET r == inv[i]
        IN r.chain >= 1 =>
              /\ r.err.kind \notin {"CodecError", "EmptyInput", "ImageDecodeError"}
              /\ r.pc # "crashed"
              /\ Succeeded(r) => OutputImages(r.result) = {[w |-> r.width, h |-> r.height]}

\* the second call of a chain returned, resizing the previous output again
C8_Witness ==
    /\ inv[1].chain = 2
    /\ inv[1].pc = "returned"
    /\ inv[1].input_image # [w |-> inv[1].width, h |-> inv[1].height]

-----------------------------------------------------------------------------
(* Properties of concurrent invocations, checked under SpecConc *)

\* C9: with the stages of concurrent invocations interleaved in any order, each
\* invocation ends with a result or error it can end with when run alone on
\* the same input, width and height.
C9_Isolation ==
    \A i \in DOMAIN inv :
        LET r == inv[i]
        IN r.pc \in {"returned", "thrown", "responded", "crashed"} =>
              [pc |-> IF r.pc = "responded"
                      THEN IF r.status = 200 THEN "returned" ELSE "thrown"
                      ELSE r.pc,
               err |-> r.err,
               result |-> r.result]
                 \in resize_jpeg(r.input, r.width, r.height, r.enc_ok)

\* one invocation returned while another, on another input, was in flight
C9_Witness ==
    /\ inv[1].pc = "text_encode"
    /\ inv[2].pc = "returned"
    /\ inv[1].width # inv[2].width

====
